---- MODULE Spec2Model ----
(***************************************************************************)
(* A model of src/app.py: the Flask service that keeps uploaded HEIC/HEIF  *)
(* files in an in-memory map, conversion_sessions, and converts them on    *)
(* request.  Session records are Python dicts, shared by reference between *)
(* the map and the convert handler's local session_data, so the model      *)
(* keeps them in a heap and keeps the map as the set of keys that point    *)
(* into it.  No handler takes a lock, so every handler that touches the    *)
(* map, a session dict or the upload folder runs as a thread that takes    *)
(* one step per access to them; the statements that only compute on the    *)
(* thread's locals run in the step of the access they follow.  index,      *)
(* sitemap and robots touch none of them and are one step each.  What the  *)
(* libraries and the file system decide (whether a decoder accepts a file, *)
(* whether file.save and os.remove succeed) is drawn in the step that asks *)
(* them.  The temporary file of the sips fallback is not modelled.         *)
(***************************************************************************)
EXTENDS Integers, Sequences, FiniteSets, TLC

VARIABLES
    conversion_sessions,  \* the keys of the dict of line 30; key s maps to heap[s]
    heap,                 \* the session dicts ever allocated, by the uuid they were made for
    files,                \* the files in UPLOAD_FOLDER
    thr,                  \* the request threads: the handler each is in, and its locals
    last,                 \* the response the latest step sent, NoResponse if it sent none
    cleared,              \* the issued ids for which a clear request has returned success
    converts,             \* the convert requests that have reached line 94
    requests              \* the requests that have got past the first checks of their handler

vars == <<conversion_sessions, heap, files, thr, last, cleared, converts, requests>>

\* ----------------------------------------------------------------- bounds
MaxSessions == 2
MaxThreads == 2
\* The convert requests of a run that name a session of the map.
MaxConverts == 1
\* The requests of a run that their handler does not answer at its first
\* checks: the uploads that are saved and the status, download, convert and
\* clear requests that name a session of the map.  The requests answered at
\* once are not counted.
MaxRequests == 3

Uuids == 1..MaxSessions
\* An id a client made up: uuid4 never returns it.
BogusId == MaxSessions + 1
Threads == 1..MaxThreads

\* ------------------------------------------------------------ str methods
UpperChars ==
    <<"A", "B", "C", "D", "E", "F", "G", "H", "I", "J", "K", "L", "M",
      "N", "O", "P", "Q", "R", "S", "T", "U", "V", "W", "X", "Y", "Z">>
LowerChars ==
    <<"a", "b", "c", "d", "e", "f", "g", "h", "i", "j", "k", "l", "m",
      "n", "o", "p", "q", "r", "s", "t", "u", "v", "w", "x", "y", "z">>
Digits == <<"0", "1", "2", "3", "4", "5", "6", "7", "8", "9">>
\* The ASCII control characters that have no escape: chr(11), the vertical
\* tab, and chr(28) to chr(31), the file, group, record and unit separators.
VT == ""
FS == ""
GS == ""
RS == ""
US == ""
\* The ASCII characters str.split() splits at.
Whitespace == {" ", "\t", "\n", "\r", "\f", VT, FS, GS, RS, US}

\* The lower-case letter of each upper-case one.
ToLower ==
    [c \in {UpperChars[i] : i \in 1..Len(UpperChars)} |->
        LowerChars[CHOOSE i \in 1..Len(UpperChars) : UpperChars[i] = c]]

LowerChar(c) == IF c \in DOMAIN ToLower THEN ToLower[c] ELSE c

lower(s) == [i \in 1..Len(s) |-> LowerChar(s[i])]

endswith(s, suffix) ==
    /\ Len(s) >= Len(suffix)
    /\ SubSeq(s, Len(s) - Len(suffix) + 1, Len(s)) = suffix

RECURSIVE lstrip(_, _)
lstrip(s, chars) ==
    IF s # <<>> /\ s[1] \in chars THEN lstrip(Tail(s), chars) ELSE s

RECURSIVE rstrip(_, _)
rstrip(s, chars) ==
    IF s # <<>> /\ s[Len(s)] \in chars
    THEN rstrip(SubSeq(s, 1, Len(s) - 1), chars)
    ELSE s

strip(s, chars) == rstrip(lstrip(s, chars), chars)

\* "_".join(s.split()): the runs of whitespace inside s become one "_" each,
\* those at its ends disappear.
RECURSIVE JoinRuns(_)
JoinRuns(s) ==
    IF s = <<>> THEN <<>>
    ELSE IF s[1] \notin Whitespace THEN <<s[1]>> \o JoinRuns(Tail(s))
    ELSE IF Len(s) > 1 /\ s[2] \in Whitespace THEN JoinRuns(Tail(s))
    ELSE <<"_">> \o JoinRuns(Tail(s))

join_split(s) == JoinRuns(strip(s, Whitespace))

\* _filename_ascii_strip_re = [^A-Za-z0-9_.-]: the characters it keeps.
SafeChars ==
    {UpperChars[i] : i \in 1..Len(UpperChars)}
        \cup {LowerChars[i] : i \in 1..Len(LowerChars)}
        \cup {Digits[i] : i \in 1..Len(Digits)}
        \cup {"_", ".", "-"}

IsSafeChar(c) == c \in SafeChars

\* werkzeug.utils.secure_filename on ASCII names, where os.sep is "/" and
\* there is no os.path.altsep: path separators become spaces, whitespace
\* runs become "_", the characters outside A-Za-z0-9_.- are dropped, and
\* dots and underscores are stripped from both ends.
secure_filename(name) ==
    LET spaced == [i \in 1..Len(name) |-> IF name[i] = "/" THEN " " ELSE name[i]]
    IN  strip(SelectSeq(join_split(spaced), IsSafeChar), {".", "_"})

\* os.path.splitext(p)[0]: p up to its last dot, unless only dots precede it.
LastDot(s) ==
    IF \E i \in 1..Len(s) : s[i] = "."
    THEN CHOOSE i \in 1..Len(s) :
            /\ s[i] = "."
            /\ \A j \in (i + 1)..Len(s) : s[j] # "."
    ELSE 0

splitext_base(s) ==
    LET d == LastDot(s)
    IN  IF d > 0 /\ \E i \in 1..(d - 1) : s[i] # "."
        THEN SubSeq(s, 1, d - 1)
        ELSE s

\* ---------------------------------------------------------------- inputs
NAME_HEIC == <<"a", ".", "h", "e", "i", "c">>
NAME_HEIF_UPPER == <<"B", " ", "C", ".", "H", "E", "I", "F">>
NAME_JPG == <<"c", ".", "j", "p", "g">>
NAME_PNG == <<"c", ".", "p", "n", "g">>
NAME_HEIC_TXT == <<"a", ".", "h", "e", "i", "c", ".", "t", "x", "t">>
NAME_EMPTY == <<>>

Filenames ==
    {NAME_HEIC, NAME_HEIF_UPPER, NAME_JPG, NAME_PNG, NAME_HEIC_TXT, NAME_EMPTY}

MAX_CONTENT_LENGTH == 16 * 1024 * 1024

\* The Content-Length a file part declares; 0 when it declares none.
ContentLengths == {0, 1024, MAX_CONTENT_LENGTH + 1}

\* The Content-Length of the request: within the limit, or above it.
RequestLengths == {2048, MAX_CONTENT_LENGTH + 1}

\* request.files: without a 'file' part, or with one.
NoFilePart ==
    [has_file |-> FALSE, filename |-> NAME_EMPTY, content_length |-> 0,
     request_length |-> 2048]

\* Every name with a part that declares no length; the names line 54 lets
\* through with every length, line 58 being reached for these only; and a
\* request above the limit for a name line 54 lets through and one it does
\* not, line 46 answering every such request alike.
UploadRequests ==
    {NoFilePart}
        \cup [has_file : {TRUE}, filename : Filenames, content_length : {0},
              request_length : {2048}]
        \cup [has_file : {TRUE}, filename : {NAME_HEIC, NAME_HEIF_UPPER},
              content_length : ContentLengths, request_length : {2048}]
        \cup [has_file : {TRUE}, filename : {NAME_HEIC, NAME_JPG},
              content_length : {0}, request_length : {MAX_CONTENT_LENGTH + 1}]

\* ------------------------------------------------------------ the records
\* A key the dict does not hold.
Absent == "<absent>"
\* Python's None.
None == "None"

\* Faulty variant: raster extensions let through.
ALLOWED_SUFFIXES_WITH_RASTER ==
    {<<".", "h", "e", "i", "c">>, <<".", "h", "e", "i", "f">>,
     <<".", "j", "p", "g">>, <<".", "p", "n", "g">>}

ALLOWED_SUFFIXES ==
    {<<".", "h", "e", "i", "c">>, <<".", "h", "e", "i", "f">>}

\* Faulty variant: '.heic' in filename.lower() instead of endswith.
allowed_file_contains(filename) ==
    \E i \in 1..Len(filename), suffix \in {<<".", "h", "e", "i", "c">>, <<".", "h", "e", "i", "f">>} :
        /\ i + Len(suffix) - 1 <= Len(filename)
        /\ SubSeq(lower(filename), i, i + Len(suffix) - 1) = suffix

allowed_file(filename) ==
    \E suffix \in ALLOWED_SUFFIXES : endswith(lower(filename), suffix)

\* Faulty variant: the session starts out as being converted.
NewSessionConverting(session_id, filename) ==
    [file_path |-> <<session_id, filename>>,
     original_filename |-> filename,
     status |-> "converting",
     progress |-> 10,
     converted_data |-> Absent,
     output_format |-> Absent,
     error |-> Absent]

\* The dict of lines 70-76 (created_at, which nothing reads, is left out).
NewSession(session_id, filename) ==
    [file_path |-> <<session_id, filename>>,
     original_filename |-> filename,
     status |-> "pending",
     progress |-> 0,
     converted_data |-> Absent,
     output_format |-> Absent,
     error |-> Absent]

\* A dict nothing refers to any more.
Freed ==
    [file_path |-> <<>>, original_filename |-> <<>>, status |-> "<freed>",
     progress |-> 0, converted_data |-> Absent, output_format |-> Absent,
     error |-> Absent]

\* dict.get(key): None for a key the dict does not hold.
Get(value) == IF value = Absent THEN None ELSE value

\* The request of a response, recorded for uploads and for the convert
\* requests answered at once.
NotRecorded == [has_file |-> FALSE]

\* A thread that serves no request, and the locals of the handlers: req and
\* filename (upload_file); output_format, tried, buffer and e (convert_file);
\* status, progress and error, the values get_status has read so far;
\* base_name, extension and file_data (download_file).
Idle ==
    [pc |-> "idle", op |-> "none", sid |-> BogusId, req |-> NotRecorded,
     filename |-> <<>>, output_format |-> None, tried |-> <<>>,
     buffer |-> None, e |-> None, status |-> None, progress |-> 0,
     error |-> None, base_name |-> <<>>, extension |-> None,
     file_data |-> None]

\* The lines at which a thread has not yet run its
\* session_data = conversion_sessions[session_id] (lines 94, 249, 277).
BeforeLookup == {"idle", "L94", "L249", "L277"}

\* A thread holds a reference to the dict of `a` once that line has run.
HoldsRef(thread, a) ==
    /\ thread.op \in {"convert", "download", "status"}
    /\ thread.pc \notin BeforeLookup
    /\ thread.sid = a

\* Reference counting: a dict is freed when neither the map nor a thread's
\* session_data refers to it.
Collect(h, keys, threads) ==
    [a \in DOMAIN h |->
        IF a \in keys \/ \E t \in Threads : HoldsRef(threads[t], a)
        THEN h[a] ELSE Freed]

NoResponse ==
    [op |-> "none", sid |-> BogusId, req |-> NotRecorded, code |-> 0,
     json |-> FALSE, escaped |-> FALSE, body |-> [kind |-> "none"]]

\* A response: the status code, whether the body is JSON, whether it is the
\* framework's answer to an exception that left the handler, and the body.
Response(op, sid, code, json, body) ==
    [op |-> op, sid |-> sid, req |-> NotRecorded, code |-> code,
     json |-> json, escaped |-> FALSE, body |-> body]

To(req, response) == [response EXCEPT !.req = req]

\* jsonify({'error': message}), code
JsonError(op, sid, code, message) ==
    Response(op, sid, code, TRUE, [kind |-> "error", error |-> message])

\* An exception that leaves the handler: Flask answers with an HTML page,
\* under the code of an HTTPException, or under 500 for any other.
Aborted(op, sid, code, exception) ==
    [op |-> op, sid |-> sid, req |-> NotRecorded, code |-> code,
     json |-> FALSE, escaped |-> TRUE,
     body |-> [kind |-> "html", exception |-> exception]]

Escaped(op, sid, exception) == Aborted(op, sid, 500, exception)

\* werkzeug raises RequestEntityTooLarge when a handler asks for the body of
\* a request longer than MAX_CONTENT_LENGTH.
TooLong(request_length) == request_length > MAX_CONTENT_LENGTH

Init ==
    /\ conversion_sessions = {}
    /\ heap = <<>>
    /\ files = {}
    /\ thr = [t \in Threads |-> Idle]
    /\ last = NoResponse
    /\ cleared = {}
    /\ converts = 0
    /\ requests = 0

\* ------------------------------------------------------------ the threads
\* The ids a client can send: those some upload returned, and a made-up one.
KnownIds == DOMAIN heap \cup {BogusId}

\* A request that starts is served by the first free worker thread.
FreeThread(t) ==
    /\ thr[t].pc = "idle"
    /\ \A u \in Threads : u < t => thr[u].pc # "idle"

\* The thread enters a handler for session_id and stops before line pc.
Enter(t, op, session_id, pc) ==
    thr' = [thr EXCEPT ![t] =
                [Idle EXCEPT !.pc = pc, !.op = op, !.sid = session_id]]

Goto(t, pc) == thr' = [thr EXCEPT ![t].pc = pc]

\* The handler returns: the thread is free again, and the dict it held is
\* freed if the map has dropped it.
Return(t, h, response) ==
    /\ thr' = [thr EXCEPT ![t] = Idle]
    /\ heap' = Collect(h, conversion_sessions, [thr EXCEPT ![t] = Idle])
    /\ last' = response

\* session_data = conversion_sessions[session_id] (lines 94, 249, 277), in
\* no try block: the KeyError of a key that a clear has deleted since the
\* membership test leaves the handler.
Lookup(t, op, pc) ==
    /\ IF thr[t].sid \in conversion_sessions
       THEN Goto(t, pc) /\ last' = NoResponse
       ELSE /\ thr' = [thr EXCEPT ![t] = Idle]
            /\ last' = Escaped(op, thr[t].sid, "KeyError")
    /\ UNCHANGED <<conversion_sessions, heap, files, cleared, converts, requests>>

\* --------------------------------------------------- POST /upload (44-82)
UploadRejection(req) ==
    IF ~req.has_file THEN "No file provided"
    ELSE IF req.filename = <<>> THEN "No file selected"
    ELSE IF ~allowed_file(req.filename)
        THEN "Invalid file type. Only HEIC/HEIF files are supported."
    ELSE IF req.content_length # 0 /\ req.content_length > MAX_CONTENT_LENGTH
        THEN "File too large. Maximum size is 16MB."
    ELSE None

\* The ids uuid4 has returned and something still names: those of the dicts
\* ever made, of the uploads that have not yet made theirs, and of the files
\* in the folder.
Issued ==
    DOMAIN heap
        \cup {thr[t].sid : t \in {u \in Threads : thr[u].op = "upload"}}
        \cup {f[1] : f \in files}

\* str(uuid.uuid4()): an id never returned before; ids are named in the
\* order of their issue.
uuid4 == CHOOSE id \in Uuids \ Issued : \A other \in Uuids \ Issued : id <= other

\* file.save(file_path), in no try block: the file is written; or open()
\* raises and there is no file; or a write raises and leaves what was
\* written so far.
SaveOutcomes == {"saved", "not created", "truncated"}

\* Lines 46-67: request.files, the checks, the new id, and file.save.
upload_begin(t, req) ==
    /\ FreeThread(t)
    /\ LET why == UploadRejection(req)
       IN  IF TooLong(req.request_length)
           THEN /\ last' = To(req, Aborted("upload", BogusId, 413,
                                           "RequestEntityTooLarge"))
                /\ UNCHANGED <<files, thr, requests>>
           ELSE IF why # None
           THEN /\ last' = To(req, JsonError("upload", BogusId, 400, why))
                /\ UNCHANGED <<files, thr, requests>>
           ELSE /\ Uuids \ Issued # {}
                /\ \E outcome \in SaveOutcomes :
                    LET session_id == uuid4
                        filename == secure_filename(req.filename)
                    IN  /\ files' = IF outcome = "not created" THEN files
                                    ELSE files \cup {<<session_id, filename>>}
                        /\ IF outcome = "saved"
                           THEN /\ thr' = [thr EXCEPT ![t] =
                                            [Idle EXCEPT
                                                !.pc = "L70", !.op = "upload",
                                                !.sid = session_id, !.req = req,
                                                !.filename = filename]]
                                /\ requests < MaxRequests
                                /\ requests' = requests + 1
                                /\ last' = NoResponse
                           ELSE /\ last' = To(req, Escaped("upload", BogusId,
                                                           "OSError"))
                                /\ UNCHANGED <<thr, requests>>
    /\ UNCHANGED <<conversion_sessions, heap, cleared, converts>>

\* Lines 70-82: the dict enters the map and the response names its id.
upload_L70(t) ==
    /\ thr[t].pc = "L70"
    /\ LET session_id == thr[t].sid
           session == NewSession(session_id, thr[t].filename)
       IN  /\ heap' = [a \in DOMAIN heap \cup {session_id} |->
                          IF a = session_id THEN session ELSE heap[a]]
           /\ conversion_sessions' = conversion_sessions \cup {session_id}
           /\ last' = To(thr[t].req,
                         Response("upload", session_id, 200, TRUE,
                                  [kind |-> "upload",
                                   session_id |-> session_id,
                                   filename |-> thr[t].filename,
                                   status |-> "pending"]))
    /\ thr' = [thr EXCEPT ![t] = Idle]
    /\ UNCHANGED <<files, cleared, converts, requests>>

upload_file(t) == upload_L70(t)

\* ------------------------------------------- GET /status/<id> (272-283)
\* Lines 274-275.
get_status_begin(t, session_id) ==
    /\ FreeThread(t)
    /\ IF session_id \notin conversion_sessions
       THEN /\ last' = JsonError("status", session_id, 400, "Invalid session ID")
            /\ UNCHANGED <<thr, requests>>
       ELSE /\ requests < MaxRequests
            /\ requests' = requests + 1
            /\ Enter(t, "status", session_id, "L277")
            /\ last' = NoResponse
    /\ UNCHANGED <<conversion_sessions, heap, files, cleared, converts>>

get_status_L277(t) ==
    /\ thr[t].pc = "L277"
    /\ Lookup(t, "status", "L279")

\* Lines 279-281: one read of the dict each.
get_status_L279(t) ==
    /\ thr[t].pc = "L279"
    /\ thr' = [thr EXCEPT ![t].pc = "L280",
                          ![t].status = heap[thr[t].sid].status]
    /\ last' = NoResponse
    /\ UNCHANGED <<conversion_sessions, heap, files, cleared, converts, requests>>

get_status_L280(t) ==
    /\ thr[t].pc = "L280"
    /\ thr' = [thr EXCEPT ![t].pc = "L281",
                          ![t].progress = heap[thr[t].sid].progress]
    /\ last' = NoResponse
    /\ UNCHANGED <<conversion_sessions, heap, files, cleared, converts, requests>>

get_status_L281(t) ==
    /\ thr[t].pc = "L281"
    /\ thr' = [thr EXCEPT ![t].pc = "L282",
                          ![t].error = Get(heap[thr[t].sid].error)]
    /\ last' = NoResponse
    /\ UNCHANGED <<conversion_sessions, heap, files, cleared, converts, requests>>

\* Lines 282-283: the last read, and the response.
get_status_L282(t) ==
    /\ thr[t].pc = "L282"
    /\ Return(t, heap,
              Response("status", thr[t].sid, 200, TRUE,
                       [kind |-> "status",
                        status |-> thr[t].status,
                        progress |-> thr[t].progress,
                        error |-> thr[t].error,
                        output_format |-> Get(heap[thr[t].sid].output_format)]))
    /\ UNCHANGED <<conversion_sessions, files, cleared, converts, requests>>

get_status(t) ==
    \/ get_status_L277(t)
    \/ get_status_L279(t)
    \/ get_status_L280(t)
    \/ get_status_L281(t)
    \/ get_status_L282(t)

\* ----------------------------------------- GET /download/<id> (244-270)
DownloadExtension(output_format) ==
    IF output_format = "jpeg" THEN "jpg" ELSE output_format

\* Line 251.
ReadyForDownload(session_data) == session_data.status = "completed"

\* session_data[key], in no try block: the thread goes on, or the KeyError of
\* a key the dict does not hold leaves the handler.
ReadKey(t, key, next) ==
    IF heap[thr[t].sid][key] = Absent
    THEN Return(t, heap, Escaped("download", thr[t].sid, "KeyError"))
    ELSE /\ thr' = [thr EXCEPT ![t] = next]
         /\ last' = NoResponse
         /\ UNCHANGED heap

\* Lines 246-247.
download_begin(t, session_id) ==
    /\ FreeThread(t)
    /\ IF session_id \notin conversion_sessions
       THEN /\ last' = JsonError("download", session_id, 400, "Invalid session ID")
            /\ UNCHANGED <<thr, requests>>
       ELSE /\ requests < MaxRequests
            /\ requests' = requests + 1
            /\ Enter(t, "download", session_id, "L249")
            /\ last' = NoResponse
    /\ UNCHANGED <<conversion_sessions, heap, files, cleared, converts>>

download_L249(t) ==
    /\ thr[t].pc = "L249"
    /\ Lookup(t, "download", "L251")

\* Lines 251-252.
download_L251(t) ==
    /\ thr[t].pc = "L251"
    /\ IF ReadyForDownload(heap[thr[t].sid])
       THEN Goto(t, "L255") /\ last' = NoResponse /\ UNCHANGED heap
       ELSE Return(t, heap, JsonError("download", thr[t].sid, 400,
                                      "File not ready for download"))
    /\ UNCHANGED <<conversion_sessions, files, cleared, converts, requests>>

download_L255(t) ==
    /\ thr[t].pc = "L255"
    /\ thr' = [thr EXCEPT
                ![t].pc = "L256",
                ![t].base_name = splitext_base(heap[thr[t].sid].original_filename)]
    /\ last' = NoResponse
    /\ UNCHANGED <<conversion_sessions, heap, files, cleared, converts, requests>>

\* Lines 256-260.
download_L256(t) ==
    /\ thr[t].pc = "L256"
    /\ ReadKey(t, "output_format",
               [thr[t] EXCEPT
                   !.pc = "L263",
                   !.extension = DownloadExtension(heap[thr[t].sid].output_format)])
    /\ UNCHANGED <<conversion_sessions, files, cleared, converts, requests>>

download_L263(t) ==
    /\ thr[t].pc = "L263"
    /\ ReadKey(t, "converted_data",
               [thr[t] EXCEPT
                   !.pc = "L269",
                   !.file_data = heap[thr[t].sid].converted_data])
    /\ UNCHANGED <<conversion_sessions, files, cleared, converts, requests>>

\* Lines 265-270: output_format is read again for the MIME type.
download_L269(t) ==
    /\ thr[t].pc = "L269"
    /\ Return(t, heap,
              IF heap[thr[t].sid].output_format = Absent
              THEN Escaped("download", thr[t].sid, "KeyError")
              ELSE Response("download", thr[t].sid, 200, FALSE,
                            [kind |-> "file",
                             base_name |-> thr[t].base_name,
                             extension |-> thr[t].extension,
                             mimetype |->
                                <<"image", heap[thr[t].sid].output_format>>,
                             data |-> thr[t].file_data]))
    /\ UNCHANGED <<conversion_sessions, files, cleared, converts, requests>>

download_file(t) ==
    \/ download_L249(t)
    \/ download_L251(t)
    \/ download_L255(t)
    \/ download_L256(t)
    \/ download_L263(t)
    \/ download_L269(t)

\* ------------------------------------------------------- GET / (32-34)
\* render_template('index.html'): the page.
index ==
    /\ last' = Response("index", BogusId, 200, FALSE, [kind |-> "page"])
    /\ UNCHANGED <<conversion_sessions, heap, files, thr, cleared, converts, requests>>

\* ------------------------------- GET /sitemap.xml, /robots.txt (36-42)
\* Line 1 imports Flask, render_template, request, jsonify, send_file and
\* session from flask: the name send_from_directory is not bound.
send_from_directory_bound == FALSE

StaticFile(op) ==
    /\ last' =
        IF send_from_directory_bound
        THEN Response(op, BogusId, 200, FALSE, [kind |-> "static"])
        ELSE Escaped(op, BogusId, "NameError")
    /\ UNCHANGED <<conversion_sessions, heap, files, thr, cleared, converts, requests>>

sitemap == StaticFile("sitemap")

robots == StaticFile("robots")

\* ------------------------------------------------- POST /convert (84-242)
\* request.get_json(): what the body parses to.  NoJson is a body that is
\* JSON null or no JSON object, on which data.get raises; TooLarge is a
\* body longer than MAX_CONTENT_LENGTH, on a werkzeug that checks the length
\* of every body it is asked for (on one that checks forms only, it is one
\* of the other bodies); Unhashable is an object whose session_id is a JSON
\* list or object, which no dict can be asked for.  A key the object does
\* not hold is Absent; a session_id that is absent or no uuid of the
\* service is the BogusId.
RequestFormats == {Absent, "png", "webp", "gif"}

NoJson == [is_json |-> FALSE, request_length |-> 2048]

TooLarge == [is_json |-> FALSE, request_length |-> MAX_CONTENT_LENGTH + 1]

Unhashable ==
    [is_json |-> TRUE, request_length |-> 2048, hashable |-> FALSE,
     session_id |-> BogusId, output_format |-> Absent]

\* The objects whose session_id is a string, a number or null, with their
\* output_format.
Objects ==
    [is_json : {TRUE}, request_length : {2048}, hashable : {TRUE},
     session_id : KnownIds, output_format : RequestFormats]

ConvertBodies == {NoJson, TooLarge, Unhashable} \cup Objects

\* What lines 86-91 look at in a body: all of it but the output_format.
Asked(data) ==
    IF data.is_json
    THEN [is_json |-> TRUE, hashable |-> data.hashable,
          session_id |-> data.session_id]
    ELSE data

\* data.get(key, default)
GetDefault(value, default) == IF value = Absent THEN default ELSE value

\* session_data[field] = value, on the dict the thread holds a reference to.
WithField(session_id, field, value) ==
    [heap EXCEPT ![session_id] = [@ EXCEPT ![field] = value]]

SetField(session_id, field, value) ==
    heap' = WithField(session_id, field, value)

\* Line 91.
InvalidSessionID(session_id) == session_id \notin conversion_sessions

\* Lines 86-92.
convert_begin(t, data) ==
    /\ FreeThread(t)
    /\ IF TooLong(data.request_length)
       THEN /\ last' = To(Asked(data), Aborted("convert", BogusId, 413,
                                               "RequestEntityTooLarge"))
            /\ UNCHANGED <<thr, converts, requests>>
       ELSE IF ~data.is_json
       THEN /\ last' = To(Asked(data),
                          Escaped("convert", BogusId, "AttributeError"))
            /\ UNCHANGED <<thr, converts, requests>>
       ELSE IF ~data.hashable
       THEN /\ last' = To(Asked(data), Escaped("convert", BogusId, "TypeError"))
            /\ UNCHANGED <<thr, converts, requests>>
       ELSE IF InvalidSessionID(data.session_id)
       THEN /\ last' = To(Asked(data),
                          JsonError("convert", data.session_id, 400,
                                    "Invalid session ID"))
            /\ UNCHANGED <<thr, converts, requests>>
       ELSE /\ requests < MaxRequests
            /\ requests' = requests + 1
            /\ converts < MaxConverts
            /\ converts' = converts + 1
            /\ thr' = [thr EXCEPT ![t] =
                        [Idle EXCEPT
                            !.pc = "L94", !.op = "convert",
                            !.sid = data.session_id,
                            !.output_format =
                                GetDefault(data.output_format, "jpeg")]]
            /\ last' = NoResponse
    /\ UNCHANGED <<conversion_sessions, heap, files, cleared>>

\* Line 94: session_data = conversion_sessions[session_id], outside the try.
convert_L94(t) ==
    /\ thr[t].pc = "L94"
    /\ Lookup(t, "convert", "L98")

convert_L98(t) ==
    /\ thr[t].pc = "L98"
    /\ SetField(thr[t].sid, "status", "converting")
    /\ Goto(t, "L99")
    /\ last' = NoResponse
    /\ UNCHANGED <<conversion_sessions, files, cleared, converts, requests>>

convert_L99(t) ==
    /\ thr[t].pc = "L99"
    /\ SetField(thr[t].sid, "progress", 10)
    /\ Goto(t, "L104")
    /\ last' = NoResponse
    /\ UNCHANGED <<conversion_sessions, files, cleared, converts, requests>>

\* An exception inside the try of line 96 is caught at line 236.
Raise(t, e) == thr' = [thr EXCEPT ![t].pc = "L240", ![t].e = e]

\* Line 104: os.path.getsize raises when the file is gone.
convert_L104(t) ==
    /\ thr[t].pc = "L104"
    /\ IF heap[thr[t].sid].file_path \in files
       THEN Goto(t, "L109")
       ELSE Raise(t, "FileNotFoundError")
    /\ last' = NoResponse
    /\ UNCHANGED <<conversion_sessions, heap, files, cleared, converts, requests>>

\* Lines 106-169: the nested try blocks.  Each method is attempted in the
\* except clause of the one before it; the last one re-raises open_error.
DecodeLines == {"L109", "L116", "L130", "L152"}

DecodeMethod(pc) ==
    CASE pc = "L109" -> "Image.open"
      [] pc = "L116" -> "pillow_heif.read_heif"
      [] pc = "L130" -> "pillow_heif.read_heif bgr_mode=False"
      [] pc = "L152" -> "sips"

ExceptClause(pc) ==
    CASE pc = "L109" -> "L116"
      [] pc = "L116" -> "L130"
      [] pc = "L130" -> "L152"
      [] pc = "L152" -> "L240"

\* Lines 190-198 and 209-216: the format img.save is given.
SaveFormat(output_format) ==
    IF output_format = "jpeg" THEN "JPEG"
    ELSE IF output_format = "png" THEN "PNG"
    ELSE IF output_format = "webp" THEN "WebP"
    ELSE "JPEG"

\* Where a decoder that returned an image leaves the chain: line 171 finds
\* img set, and lines 174-218 run.
AfterDecode(pc) == "L221"

\* The decoders that return an image they have not yet decoded: Image.open
\* reads the header, and the pixels are loaded by the first call that needs
\* them (line 160 opens the file sips wrote in the same way).  read_heif's
\* pixels are decoded by Image.frombytes, inside the try.
LazyMethods == {"Image.open", "sips"}

\* What lines 174-218 can raise on the image of a decoder: nothing; the
\* decoding failure of a lazily opened image; a failure of the conversion or
\* the encoding.
Raised(method) ==
    {None, "save_error"}
        \cup (IF method \in LazyMethods THEN {"load_error"} ELSE {})

\* One decode attempt.  A decoder's verdict on a file is the library's; it
\* fails when the file is gone.  The attempt that returns an image is
\* followed, in the same step, by the thread's own work on it, lines 174-218:
\* the mode conversion and img.save, again when strip_exif is set (read there
\* only, so drawn here).  tried lists the attempts of the request while it is
\* in the chain or reporting a failure.
convert_decode(t) ==
    /\ thr[t].pc \in DecodeLines
    /\ \E ok \in BOOLEAN, strip_exif \in BOOLEAN,
          raised \in Raised(DecodeMethod(thr[t].pc)) :
        LET attempt == [method |-> DecodeMethod(thr[t].pc), ok |-> ok]
            next == IF ok THEN AfterDecode(thr[t].pc)
                    ELSE ExceptClause(thr[t].pc)
        IN  /\ ok => heap[thr[t].sid].file_path \in files
            /\ ~ok => raised = None /\ ~strip_exif
            /\ raised # None => ~strip_exif
            /\ thr' = [thr EXCEPT ![t] =
                    IF next \in DecodeLines
                    THEN [@ EXCEPT !.pc = next, !.tried = Append(@, attempt)]
                    ELSE IF ~ok
                    THEN [@ EXCEPT !.pc = next, !.tried = Append(@, attempt),
                                   !.e = "open_error"]
                    ELSE IF raised # None
                    THEN [@ EXCEPT !.pc = "L240", !.tried = Append(@, attempt),
                                   !.e = raised]
                    ELSE [@ EXCEPT !.pc = next, !.tried = <<>>,
                                   !.buffer = SaveFormat(thr[t].output_format)]]
    /\ last' = NoResponse
    /\ UNCHANGED <<conversion_sessions, heap, files, cleared, converts, requests>>

convert_L221(t) ==
    /\ thr[t].pc = "L221"
    /\ SetField(thr[t].sid, "converted_data", thr[t].buffer)
    /\ Goto(t, "L222")
    /\ last' = NoResponse
    /\ UNCHANGED <<conversion_sessions, files, cleared, converts, requests>>

convert_L222(t) ==
    /\ thr[t].pc = "L222"
    /\ SetField(thr[t].sid, "output_format", thr[t].output_format)
    /\ Goto(t, "L223")
    /\ last' = NoResponse
    /\ UNCHANGED <<conversion_sessions, files, cleared, converts, requests>>

convert_L223(t) ==
    /\ thr[t].pc = "L223"
    /\ SetField(thr[t].sid, "status", "completed")
    /\ Goto(t, "L224")
    /\ last' = NoResponse
    /\ UNCHANGED <<conversion_sessions, files, cleared, converts, requests>>

\* Lines 224-234.
convert_L224(t) ==
    /\ thr[t].pc = "L224"
    /\ Return(t, WithField(thr[t].sid, "progress", 100),
              Response("convert", thr[t].sid, 200, TRUE,
                       [kind |-> "convert", status |-> "completed",
                        progress |-> 100,
                        output_format |-> thr[t].output_format]))
    /\ UNCHANGED <<conversion_sessions, files, cleared, converts, requests>>

convert_L240(t) ==
    /\ thr[t].pc = "L240"
    /\ SetField(thr[t].sid, "status", "error")
    /\ Goto(t, "L241")
    /\ last' = NoResponse
    /\ UNCHANGED <<conversion_sessions, files, cleared, converts, requests>>

\* Lines 241-242.
convert_L241(t) ==
    /\ thr[t].pc = "L241"
    /\ Return(t, WithField(thr[t].sid, "error", thr[t].e),
              JsonError("convert", thr[t].sid, 500, thr[t].e))
    /\ UNCHANGED <<conversion_sessions, files, cleared, converts, requests>>

\* --------------------------------------- DELETE /clear/<id> (285-297)
\* jsonify({'success': True})
Success(session_id) ==
    Response("clear", session_id, 200, TRUE,
             [kind |-> "clear", success |-> TRUE])

\* Line 287.
clear_begin(t, session_id) ==
    /\ FreeThread(t)
    /\ IF session_id \in conversion_sessions
       THEN /\ requests < MaxRequests
            /\ requests' = requests + 1
            /\ Enter(t, "clear", session_id, "L290")
            /\ last' = NoResponse
            /\ UNCHANGED cleared
       ELSE /\ last' = Success(session_id)
            /\ cleared' = cleared \cup ({session_id} \cap Uuids)
            /\ UNCHANGED <<thr, requests>>
    /\ UNCHANGED <<conversion_sessions, heap, files, converts>>

\* Line 290, the argument of os.remove:
\* conversion_sessions[session_id]['file_path'], the path <<session_id,
\* filename>>, of which the thread keeps the filename.  The KeyError of a
\* key another clear has deleted is swallowed by the except of line 291.
clear_L290(t) ==
    /\ thr[t].pc = "L290"
    /\ thr' = [thr EXCEPT ![t] =
                IF thr[t].sid \in conversion_sessions
                THEN [@ EXCEPT !.pc = "L290_remove",
                               !.filename = heap[thr[t].sid].file_path[2]]
                ELSE [@ EXCEPT !.pc = "L295"]]
    /\ last' = NoResponse
    /\ UNCHANGED <<conversion_sessions, heap, files, cleared, converts, requests>>

\* Lines 290-292, the call of os.remove on the path read before: it deletes
\* the file or raises (a file that is gone, or one the system will not
\* delete), and what it raises is swallowed.
clear_L290_remove(t) ==
    /\ thr[t].pc = "L290_remove"
    /\ \E removed \in BOOLEAN :
        files' = IF removed
                 THEN files \ {<<thr[t].sid, thr[t].filename>>}
                 ELSE files
    /\ Goto(t, "L295")
    /\ last' = NoResponse
    /\ UNCHANGED <<conversion_sessions, heap, cleared, converts, requests>>

\* del conversion_sessions[session_id]
Delete(t) == conversion_sessions \ {thr[t].sid}

\* Lines 295-297.
clear_L295(t) ==
    /\ thr[t].pc = "L295"
    /\ thr' = [thr EXCEPT ![t] = Idle]
    /\ IF thr[t].sid \in conversion_sessions
       THEN /\ conversion_sessions' = Delete(t)
            /\ heap' = Collect(heap, Delete(t), thr)
            /\ last' = Success(thr[t].sid)
            /\ cleared' = cleared \cup {thr[t].sid}
       ELSE /\ last' = Escaped("clear", thr[t].sid, "KeyError")
            /\ UNCHANGED <<conversion_sessions, heap, cleared>>
    /\ UNCHANGED <<files, converts, requests>>

convert_file(t) ==
    \/ convert_L94(t)
    \/ convert_L98(t)
    \/ convert_L99(t)
    \/ convert_L104(t)
    \/ convert_decode(t)
    \/ convert_L221(t)
    \/ convert_L222(t)
    \/ convert_L223(t)
    \/ convert_L224(t)
    \/ convert_L240(t)
    \/ convert_L241(t)

clear_session(t) == clear_L290(t) \/ clear_L290_remove(t) \/ clear_L295(t)

\* ------------------------------------------------------------------ Next
\* A step of a request in flight.
Step ==
    \E t \in Threads :
        \/ upload_file(t)
        \/ get_status(t)
        \/ download_file(t)
        \/ convert_file(t)
        \/ clear_session(t)

\* A request arrives, at any time, on a free thread.
Upload == \E t \in Threads, req \in UploadRequests : upload_begin(t, req)

Status == \E t \in Threads, session_id \in KnownIds : get_status_begin(t, session_id)

Download == \E t \in Threads, session_id \in KnownIds : download_begin(t, session_id)

Convert == \E t \in Threads, data \in ConvertBodies : convert_begin(t, data)

Clear == \E t \in Threads, session_id \in KnownIds : clear_begin(t, session_id)

Next ==
    \/ index
    \/ sitemap
    \/ robots
    \/ Upload
    \/ Status
    \/ Download
    \/ Convert
    \/ Clear
    \/ Step

Spec == Init /\ [][Next]_vars

\* ================================================================ claims
\* The names of the inputs, sorted by hand as the claims sort them.
HeicNames == {NAME_HEIC, NAME_HEIF_UPPER}
RasterNames == {NAME_JPG, NAME_PNG}
OtherNames == {NAME_HEIC_TXT}

\* A file part is present and its name is non-empty and ends in .heic/.heif.
ValidUpload(req) == req.has_file /\ req.filename \in HeicNames

\* The response and the state after an upload that was accepted: a new id
\* and the secured filename in the response, one new pending record under
\* the id, its file in the folder, everything else as it was.
Accepted ==
    /\ last'.op = "upload" /\ last'.code = 200 /\ last'.json
    /\ last'.body.kind = "upload"
    /\ last'.body.status = "pending"
    /\ last'.body.filename = secure_filename(last'.req.filename)
    /\ last'.body.session_id \notin conversion_sessions
    /\ last'.body.session_id \notin DOMAIN heap
    /\ conversion_sessions' = conversion_sessions \cup {last'.body.session_id}
    /\ DOMAIN heap' = DOMAIN heap \cup {last'.body.session_id}
    /\ heap'[last'.body.session_id].status = "pending"
    /\ heap'[last'.body.session_id].progress = 0
    /\ heap'[last'.body.session_id].original_filename = last'.body.filename
    /\ heap'[last'.body.session_id].file_path
            = <<last'.body.session_id, last'.body.filename>>
    /\ heap'[last'.body.session_id].file_path \in files'
    /\ \A s \in DOMAIN heap : heap'[s] = heap[s]

\* The response to a request longer than MAX_CONTENT_LENGTH: the framework's
\* 413 page, and nothing changed.
TooLargeAnswer ==
    /\ last'.code = 413 /\ ~last'.json
    /\ UNCHANGED <<conversion_sessions, heap, files, thr>>

\* The response to an upload whose file could not be saved: the framework's
\* 500 page, and no session.
SaveFailed ==
    /\ last'.code = 500 /\ ~last'.json /\ last'.escaped
    /\ UNCHANGED <<conversion_sessions, heap, thr>>

\* C1, as claimed: every upload with a file part whose name is non-empty and
\* ends in .heic or .heif (in any case) returns a new session id with the
\* filename and adds exactly one pending record with progress 0 under an id
\* that was no key before, leaving every other record unchanged.
C1_AsClaimed ==
    [][last'.op = "upload" /\ ValidUpload(last'.req) => Accepted]_vars

\* C1, amended: the same, for the valid uploads whose request is no longer
\* than MAX_CONTENT_LENGTH, whose file part declares no Content-Length above
\* it, and whose file is saved.  A request that is longer is answered 413
\* by the framework, a part that declares more is answered 400, both
\* changing nothing, and an upload whose file cannot be saved is answered
\* 500 and makes no session.  An upload that has saved its file leaves the
\* handler only with the answer of an accepted one, for the id it drew, and
\* until then changes neither the map nor a record.
C1_ValidUpload ==
    /\ [][last'.op = "upload" /\ ValidUpload(last'.req) =>
            IF TooLong(last'.req.request_length)
            THEN TooLargeAnswer
            ELSE IF last'.req.content_length > MAX_CONTENT_LENGTH
            THEN /\ last'.code = 400 /\ last'.json
                 /\ UNCHANGED <<conversion_sessions, heap, files, thr>>
            ELSE Accepted \/ SaveFailed]_vars
    /\ [][\A t \in Threads :
            (thr[t].op = "upload" /\ thr'[t] # thr[t])
            => (/\ Accepted
                /\ last'.sid = thr[t].sid /\ last'.req = thr[t].req
                /\ last'.body.session_id = thr[t].sid)]_vars
    /\ [][\A t \in Threads :
            (thr[t].pc = "idle" /\ thr'[t].op = "upload")
            => (/\ ValidUpload(thr'[t].req)
                /\ ~TooLong(thr'[t].req.request_length)
                /\ thr'[t].req.content_length <= MAX_CONTENT_LENGTH
                /\ thr'[t].sid \notin DOMAIN heap
                /\ <<thr'[t].sid, secure_filename(thr'[t].req.filename)>>
                        \in files'
                /\ UNCHANGED <<conversion_sessions, heap>>)]_vars

\* C1's case: an upload of the name that secure_filename rewrites was just
\* accepted while another session, already converted, is in the map.
C1_Witness ==
    /\ last.op = "upload" /\ last.code = 200
    /\ last.req.filename = NAME_HEIF_UPPER
    /\ \E s \in conversion_sessions \ {last.sid} : heap[s].status = "completed"

\* The uploads C2 lists: no file part, an empty filename, an unsupported
\* extension.
RejectedUpload(req) ==
    \/ ~req.has_file
    \/ req.filename = NAME_EMPTY
    \/ req.filename \in RasterNames \cup OtherNames

\* C2, as claimed: a rejected upload is answered 400 with a JSON error and
\* leaves the session map, its records and the stored files as they were.
C2_AsClaimed ==
    [][last'.op = "upload" /\ RejectedUpload(last'.req) =>
            /\ last'.code = 400 /\ last'.json /\ ~last'.escaped
            /\ last'.body.kind = "error"
            /\ UNCHANGED <<conversion_sessions, heap, files>>]_vars

\* C2, amended: a rejected upload whose request is no longer than
\* MAX_CONTENT_LENGTH is answered 400 with a JSON error that names the
\* reason, and one whose request is longer is answered 413 by the
\* framework, with no JSON; both leave the session map, its records, the
\* stored files and the requests in flight as they were.
C2_RejectedUpload ==
    [][last'.op = "upload" /\ RejectedUpload(last'.req) =>
            IF TooLong(last'.req.request_length)
            THEN TooLargeAnswer
            ELSE /\ last'.code = 400 /\ last'.json /\ ~last'.escaped
                 /\ last'.body.kind = "error"
                 /\ last'.body.error =
                        (IF ~last'.req.has_file THEN "No file provided"
                         ELSE IF last'.req.filename = NAME_EMPTY
                         THEN "No file selected"
                         ELSE "Invalid file type. Only HEIC/HEIF files are supported.")
                 /\ UNCHANGED <<conversion_sessions, heap, files, thr>>]_vars

\* C2's case: an upload was just rejected for its extension while the map
\* holds a session.
C2_Witness ==
    /\ last.op = "upload" /\ last.code = 400
    /\ last.body.error = "Invalid file type. Only HEIC/HEIF files are supported."
    /\ conversion_sessions # {}

\* C3, as claimed: an upload named .jpg or .png is not rejected for its
\* extension and yields a pending session.
C3_AsClaimed ==
    [][(/\ last'.op = "upload"
        /\ last'.req.has_file /\ last'.req.filename \in RasterNames
        /\ ~TooLong(last'.req.request_length)
        /\ last'.req.content_length <= MAX_CONTENT_LENGTH)
       => (/\ last'.code = 200
           /\ last'.body.kind = "upload"
           /\ heap'[last'.body.session_id].status = "pending")]_vars

\* C3, amended: upload accepts HEIC/HEIF names only.  Of the uploads whose
\* request is no longer than MAX_CONTENT_LENGTH, one named .jpg or .png is
\* answered 400 "Invalid file type" and yields no session, and no upload
\* thread is ever started for such a name, while one named .heic or .heif
\* whose part declares no greater length yields a pending session unless
\* its file cannot be saved.
C3_OnlyHeic ==
    /\ [][(/\ last'.op = "upload" /\ last'.req.has_file
           /\ ~TooLong(last'.req.request_length))
          => (/\ (last'.req.filename \in RasterNames) =>
                    (/\ last'.code = 400 /\ last'.json
                     /\ last'.body.kind = "error"
                     /\ last'.body.error =
                          "Invalid file type. Only HEIC/HEIF files are supported."
                     /\ UNCHANGED <<conversion_sessions, heap, files, thr>>)
              /\ (/\ last'.req.filename \in HeicNames
                  /\ last'.req.content_length <= MAX_CONTENT_LENGTH) =>
                    (\/ /\ last'.code = 200
                        /\ last'.body.kind = "upload"
                        /\ last'.body.session_id \in conversion_sessions'
                        /\ last'.body.session_id \notin conversion_sessions
                        /\ heap'[last'.body.session_id].status = "pending"
                     \/ SaveFailed))]_vars
    /\ [](\A t \in Threads :
            thr[t].op = "upload" => thr[t].req.filename \in HeicNames)
    /\ [](\A s \in conversion_sessions : \A f \in RasterNames :
            heap[s].original_filename # secure_filename(f))

\* C3's case: the latest step rejected an upload for its file type, and an
\* earlier upload was accepted.
C3_Witness ==
    /\ last.op = "upload"
    /\ last.body.kind = "error"
    /\ last.body.error = "Invalid file type. Only HEIC/HEIF files are supported."
    /\ \E s \in conversion_sessions : heap[s].status = "pending"

\* C4, as claimed: a convert request whose body is an object with a
\* session_id that is no key of the map is answered 400 "Invalid session
\* ID" at once and changes neither the map nor any record; no thread enters
\* the conversion for such an id.
C4_AsClaimed ==
    /\ [][(/\ last'.op = "convert" /\ "is_json" \in DOMAIN last'.req
           /\ last'.req.is_json
           /\ last'.req.session_id \notin conversion_sessions)
          => (/\ last'.code = 400 /\ last'.json
              /\ last'.body.kind = "error"
              /\ last'.body.error = "Invalid session ID"
              /\ UNCHANGED <<conversion_sessions, heap, files, thr>>)]_vars
    /\ [][\A t \in Threads :
            (thr[t].pc = "idle" /\ thr'[t].op = "convert")
            => thr'[t].sid \in conversion_sessions]_vars

\* C5, as claimed: every download request is answered with the converted
\* file or with HTTP 400 and a JSON error, and none changes the keys of the
\* map.
C5_AsClaimed ==
    [][last'.op = "download" =>
        /\ \/ last'.code = 200 /\ last'.body.kind = "file"
           \/ last'.code = 400 /\ last'.json
        /\ conversion_sessions' = conversion_sessions]_vars

\* C6, as claimed: once a clear request for an id has returned, the id is
\* never a key of the map again, also while a convert request that began
\* earlier is still writing to the record it holds, and its uploaded file
\* is gone; every status, download and convert request that arrives later
\* for the id is answered 400 at its membership test, and none gets past
\* it; a clear request for an id that is no key is answered with success
\* and changes nothing; and no step of a clear request changes the record,
\* the key or the file of another session.
C6_AsClaimed ==
    /\ [](\A s \in cleared :
            /\ s \notin conversion_sessions
            /\ \A f \in files : f[1] # s)
    /\ [][(/\ last'.op \in {"status", "download", "convert"}
           /\ last'.sid \in cleared /\ thr' = thr)
          => (last'.code = 400 /\ last'.json)]_vars
    /\ [][\A t \in Threads :
            (/\ thr[t].pc = "idle"
             /\ thr'[t].op \in {"status", "download", "convert"})
            => thr'[t].sid \notin cleared]_vars
    /\ [][(last'.op = "clear" /\ last'.sid \notin conversion_sessions /\ thr' = thr)
          => (/\ last'.code = 200 /\ last'.json
              /\ last'.body.kind = "clear" /\ last'.body.success
              /\ UNCHANGED <<conversion_sessions, heap, files>>)]_vars
    /\ [][\A t \in Threads :
            (/\ thr'[t] # thr[t]
             /\ thr[t].op = "clear" \/ thr'[t].op = "clear")
            => LET mine == IF thr[t].op = "clear" THEN thr[t].sid ELSE thr'[t].sid
               IN  \A other \in conversion_sessions \ {mine} :
                    /\ other \in conversion_sessions'
                    /\ heap'[other] = heap[other]
                    /\ heap[other].file_path \in files
                        => heap[other].file_path \in files']_vars

\* The order in which C7 says the decoders are tried.
DECODE_ORDER ==
    <<"Image.open", "pillow_heif.read_heif",
      "pillow_heif.read_heif bgr_mode=False", "sips">>

\* The first k methods of the order, each attempted and failed.
FailedFirst(k) == [i \in 1..k |-> [method |-> DECODE_ORDER[i], ok |-> FALSE]]

\* The errors with which a convert request reports that the file could not
\* be decoded: the one the chain re-raises, and the one a lazily opened
\* image raises when its pixels are first needed.
DecodeFailures == {"open_error", "load_error"}

\* C7, as claimed: a request is about to try a decoder only when exactly
\* the decoders before it in the fixed order have been tried and have all
\* failed (so a decoder that succeeds ends the chain), and a decoding
\* failure is reported to the client only after all four have been tried
\* and have failed.
C7_AsClaimed ==
    /\ [](\A t \in Threads :
            thr[t].pc \in DecodeLines =>
                \E k \in 1..Len(DECODE_ORDER) :
                    /\ DecodeMethod(thr[t].pc) = DECODE_ORDER[k]
                    /\ thr[t].tried = FailedFirst(k - 1))
    /\ [][(/\ last'.op = "convert" /\ last'.code = 500 /\ last'.json
           /\ last'.body.error \in DecodeFailures)
          => \E t \in Threads :
                /\ thr[t].pc = "L241" /\ thr'[t].pc = "idle"
                /\ thr[t].tried = FailedFirst(Len(DECODE_ORDER))]_vars

\* C8, as claimed: every response with an error status has a JSON body and
\* comes from the handler, not from an exception that left it; and when a
\* convert request on a session of the map fails, the session's status is
\* "error" with the message recorded.
C8_AsClaimed ==
    /\ last.code >= 400 => last.json /\ ~last.escaped
    /\ (last.op = "convert" /\ last.code >= 400 /\ last.sid \in conversion_sessions)
        => /\ heap[last.sid].status = "error"
           /\ last.json
           /\ heap[last.sid].error = last.body.error

\* The image format an extension or a MIME subtype names.
FormatNamed(name) ==
    CASE name \in {"jpg", "jpeg"} -> "JPEG"
      [] name = "png" -> "PNG"
      [] name = "webp" -> "WebP"
      [] OTHER -> name

\* C9, as claimed: the extension and the MIME type download reports name the
\* format the downloaded bytes are encoded in.
C9_AsClaimed ==
    (last.op = "download" /\ last.code = 200)
        => /\ FormatNamed(last.body.extension) = last.body.data
           /\ last.body.mimetype[1] = "image"
           /\ FormatNamed(last.body.mimetype[2]) = last.body.data

\* C10, as claimed: in every state each session of the map has one of the
\* four statuses, a pending one has progress 0 and no converted data, and a
\* completed one has progress 100, converted data and an output format.
C10_AsClaimed ==
    \A s \in conversion_sessions :
        /\ heap[s].status \in {"pending", "converting", "completed", "error"}
        /\ heap[s].status = "pending" =>
            heap[s].progress = 0 /\ heap[s].converted_data = Absent
        /\ heap[s].status = "completed" =>
            /\ heap[s].progress = 100
            /\ heap[s].converted_data # Absent
            /\ heap[s].output_format # Absent
====
